---------------------------- MODULE Spec2Model ----------------------------
(***************************************************************************)
(* A model of the POD generator's upload handler (src/server.js):          *)
(* app.post("/upload") with its row filter, task construction,             *)
(* generateOnePdf, processWithRetry, the chunk/batch loop and the ZIP step. *)
(*                                                                         *)
(* Strings are sequences of one-character strings, so that                 *)
(* sanitizeForFilename, trim and the `_<count>` suffix are computed the     *)
(* way the code computes them.  Node runs a handler's synchronous code     *)
(* without interruption: one action is the code between two awaits.        *)
(***************************************************************************)
EXTENDS Integers, Sequences, FiniteSets, TLC

(***************************************************************************)
(* Bounds of the model.                                                    *)
(***************************************************************************)
\* Longest sheet (rows, valid or not) of one upload.
MaxRows == 3
\* Longest sheet in the task-construction specification SpecBuild.
MaxBuildRows == 3
\* Largest value of the CONCURRENT_PDFS environment variable.
MaxConcurrentEnv == 2
\* Largest value of the BROWSER_RESTART_EVERY environment variable.
MaxRestartEnv == 3
\* Number of upload requests the server may be handling.
NumRequests == 2
\* Longest sheet of an upload when two uploads are handled at once.
MaxPairRows == 1

(***************************************************************************)
(* Program constants.  MAX_PER_ZIP (3000), the restart floor (500) and the *)
(* restart default (600) are scaled down so that partitions and chunks of  *)
(* a few tasks go through the same arithmetic; the code only adds, divides *)
(* and compares them.                                                      *)
(***************************************************************************)
MAX_PER_ZIP == 2
MAX_PDF_RETRIES == 2
RESTART_FLOOR == 2
RESTART_DEFAULT == 3
CONCURRENT_DEFAULT_RAILWAY == 1
CONCURRENT_DEFAULT_LOCAL == 5
\* The 100 of line 199, scaled down like MAX_PER_ZIP.
PROGRESS_EVERY == 2

Max(a, b) == IF a >= b THEN a ELSE b
Min(a, b) == IF a <= b THEN a ELSE b

\* Number(env) || dflt : an unset or non-numeric variable gives NaN, which
\* like 0 is falsy (env = 0 stands for all three).
OrDefault(env, dflt) == IF env # 0 THEN env ELSE dflt

\* line 20
ConcurrentPdfsOf(env, isRailwayEnv) ==
    Max(1, OrDefault(env, IF isRailwayEnv THEN CONCURRENT_DEFAULT_RAILWAY
                                          ELSE CONCURRENT_DEFAULT_LOCAL))

\* line 24
BrowserRestartEveryOf(env) == Max(RESTART_FLOOR, OrDefault(env, RESTART_DEFAULT))

(***************************************************************************)
(* Strings.                                                                *)
(***************************************************************************)
\* The class [<>:"/\\|?*\x00-\x1f] of line 100 ("\t" stands for the control
\* characters).
IllegalChars == {"<", ">", ":", "\"", "/", "\\", "|", "?", "*", "\t"}

\* String.prototype.trim removes white space at both ends.
WhiteSpace == {" ", "\t"}

RECURSIVE TrimStart(_)
TrimStart(s) ==
    IF s # << >> /\ Head(s) \in WhiteSpace THEN TrimStart(Tail(s)) ELSE s

RECURSIVE TrimEnd(_)
TrimEnd(s) ==
    IF s # << >> /\ s[Len(s)] \in WhiteSpace
    THEN TrimEnd(SubSeq(s, 1, Len(s) - 1))
    ELSE s

Trim(s) == TrimEnd(TrimStart(s))

\* s.replace(/[...]/g, "_")
ReplaceIllegal(s) == [i \in 1..Len(s) |-> IF s[i] \in IllegalChars THEN "_" ELSE s[i]]

\* line 100
sanitizeForFilename(s) ==
    LET t == Trim(ReplaceIllegal(s))
    IN  IF t = << >> THEN <<"a", "w", "b">> ELSE t

Digit(d) == CASE d = 0 -> "0" [] d = 1 -> "1" [] d = 2 -> "2" [] d = 3 -> "3"
              [] d = 4 -> "4" [] d = 5 -> "5" [] d = 6 -> "6" [] d = 7 -> "7"
              [] d = 8 -> "8" [] d = 9 -> "9"

\* `${count}` : the decimal digits of a positive integer.
RECURSIVE NumToStr(_)
NumToStr(n) == IF n < 10 THEN <<Digit(n)>> ELSE NumToStr(n \div 10) \o <<Digit(n % 10)>>

(***************************************************************************)
(* Rows and tasks.  A row is [hasAwb, awb]: hasAwb is FALSE for a cell     *)
(* that is missing (r.awb == null).                                        *)
(***************************************************************************)
Row(s) == [hasAwb |-> TRUE, awb |-> s]
NoAwbRow == [hasAwb |-> FALSE, awb |-> << >>]

\* line 88
HasAwb(r) == r.hasAwb /\ Trim(r.awb) # << >>

RowsWithAwb(rs) == SelectSeq(rs, HasAwb)

\* MapGet with `|| 1`: the first occurrence already counts as the second.
MapGetOne(m, k) == IF k \in DOMAIN m THEN m[k] ELSE 1

\* awbCount.get(rawAwb) || 0
MapGet(m, k) == IF k \in DOMAIN m THEN m[k] ELSE 0

\* line 111
BaseName(rawAwb, count) ==
    IF count = 1 THEN sanitizeForFilename(rawAwb)
    ELSE sanitizeForFilename(rawAwb) \o <<"_">> \o NumToStr(count)

\* ZipIndex with Math.ceil in the place of Math.floor(...) + 1.
ZipIndexCeil(index) == (index + MAX_PER_ZIP - 1) \div MAX_PER_ZIP

\* line 112
ZipIndex(index) == (index \div MAX_PER_ZIP) + 1

\* lines 113-120: folder is workDir/part<zipIndex>, filename is
\* folder/<baseName>.pdf; a path is the pair of its folder and its base name.
MakeTask(row, index, count) ==
    [ row      |-> row,
      rawAwb   |-> row.awb,
      filename |-> <<ZipIndex(index), BaseName(row.awb, count)>>,
      folder   |-> ZipIndex(index),
      index    |-> index ]

\* lines 99-121: the loop over rowsWithAwb, index counting from 0.
RECURSIVE BuildLoop(_, _, _, _)
BuildLoop(rs, index, awbCount, acc) ==
    IF index >= Len(rs) THEN acc
    ELSE LET row    == rs[index + 1]
             rawAwb == row.awb
             count  == MapGet(awbCount, rawAwb) + 1
         IN  BuildLoop(rs, index + 1, (rawAwb :> count) @@ awbCount,
                       Append(acc, MakeTask(row, index, count)))

BuildTasks(rs) == BuildLoop(rs, 0, << >>, << >>)

(***************************************************************************)
(* State.  The configuration and the file system belong to the process;   *)
(* everything else is local to one call of the upload handler and is a    *)
(* function of the request.                                                *)
(***************************************************************************)
VARIABLES
    CONCURRENT_PDFS,        \* line 20
    BROWSER_RESTART_EVERY,  \* line 24
    fs,          \* ./work : [work, folders, files], a file is [path, by]
    zipFile,     \* ./POD_ZIPS.zip : [exists, entries, writers, errored]
    pc,          \* where the handler of each request stands
    rows,        \* the sheet of the upload
    tasks,       \* line 102
    results,     \* line 150
    chunkStart,  \* line 187
    batchStart,  \* the i of line 192
    slots,       \* the processWithRetry calls of the batch in flight
    launched,    \* engines launched so far (the last one is `browser`)
    live,        \* the engines launched and not closed
    leaked,      \* contexts left open on the engine by attempts that returned
    succeeded,   \* tasks one of whose generateOnePdf calls returned success
    resultTask,  \* the ordinal of the task each entry of results came from
    chunks,      \* the length of chunkTasks at each launch
    written,     \* paths this request's page.pdf calls have written
    error,       \* err.message of the catch block
    sent,        \* entries of the archive handed to res.download
    progress     \* the "Progress:" lines of line 200: [completed, failed]

vars == <<CONCURRENT_PDFS, BROWSER_RESTART_EVERY, fs, zipFile, pc, rows, tasks,
          results, chunkStart, batchStart, slots, launched, live, leaked,
          succeeded, resultTask, chunks, written, error, sent, progress>>

config == <<CONCURRENT_PDFS, BROWSER_RESTART_EVERY>>

Requests == 1..NumRequests

(***************************************************************************)
(* Inputs.  The identifiers of a sheet are drawn from samples that cover   *)
(* the cases of the row filter and of sanitizeForFilename.                 *)
(***************************************************************************)
\* "A" and "A " (trailing blank): two identifiers with one file name.
RunAwbs == { <<"A">>, <<"A", " ">> }

\* The sheets of a run: the first k rows of "A", "A ", "A", "A ", ... (a
\* repeated identifier and two identifiers with one file name), and a sheet
\* whose only row is blank.
RunRow(i) == Row(IF i % 2 = 1 THEN <<"A">> ELSE <<"A", " ">>)
RunSheets == { [i \in 1..k |-> RunRow(i)] : k \in 0..MaxRows } \cup { <<Row(<<" ">>)>> }

\* More of the same for the task construction alone: a blank identifier
\* (dropped by the filter), an illegal character, a leading blank, an
\* identifier that already ends in _2, the empty string, an identifier made
\* of an illegal character only.
BuildAwbs == RunAwbs \cup { <<" ">>, <<"A", "/">>, <<"A", ":">>, <<" ", "A">>,
                            <<"A", "_", "2">>, << >>, <<"\t">> }

SeqsUpTo(S, n) == UNION { [1..k -> S] : k \in 0..n }

BuildSheets == SeqsUpTo({Row(a) : a \in BuildAwbs} \cup {NoAwbRow}, MaxBuildRows)

Configs == { <<ConcurrentPdfsOf(e, rw), BrowserRestartEveryOf(b)>> :
                <<e, rw, b>> \in (0..MaxConcurrentEnv) \X BOOLEAN \X (0..MaxRestartEnv) }

EmptyFs == [work |-> FALSE, folders |-> {}, files |-> {}]
EmptyZip == [exists |-> FALSE, entries |-> {}, writers |-> {}, errored |-> {}]

\* The state of the process when the uploads of `sheet` (a function from
\* the requests that arrive to their sheets) have been received.
InitWith(cfg, sheet) ==
    /\ CONCURRENT_PDFS = cfg[1]
    /\ BROWSER_RESTART_EVERY = cfg[2]
    /\ fs = EmptyFs
    /\ zipFile = EmptyZip
    /\ pc = [r \in Requests |-> IF r \in DOMAIN sheet THEN "received" ELSE "none"]
    /\ rows = [r \in Requests |-> IF r \in DOMAIN sheet THEN sheet[r] ELSE << >>]
    /\ tasks = [r \in Requests |-> << >>]
    /\ results = [r \in Requests |-> << >>]
    /\ chunkStart = [r \in Requests |-> 0]
    /\ batchStart = [r \in Requests |-> 0]
    /\ slots = [r \in Requests |-> << >>]
    /\ launched = [r \in Requests |-> 0]
    /\ live = [r \in Requests |-> {}]
    /\ leaked = [r \in Requests |-> 0]
    /\ succeeded = [r \in Requests |-> {}]
    /\ resultTask = [r \in Requests |-> << >>]
    /\ chunks = [r \in Requests |-> << >>]
    /\ written = [r \in Requests |-> {}]
    /\ error = [r \in Requests |-> ""]
    /\ sent = [r \in Requests |-> {}]
    /\ progress = [r \in Requests |-> << >>]

\* One upload.
Init == \E cfg \in Configs, sh \in RunSheets : InitWith(cfg, 1 :> sh)

\* One upload, with the wider choice of identifiers.
InitBuild == \E cfg \in Configs, sh \in BuildSheets : InitWith(cfg, 1 :> sh)

\* One upload of up to 2 * MAX_PER_ZIP + 1 rows: three partitions.
PartSheets == SeqsUpTo({Row(<<"A">>), Row(<<"B">>)}, 2 * MAX_PER_ZIP + 1)
InitParts == \E cfg \in Configs, sh \in PartSheets : InitWith(cfg, 1 :> sh)

\* Two uploads received by the same process.
PairSheets == SeqsUpTo({Row(<<"A">>), Row(<<"B">>)}, MaxPairRows)
InitPair ==
    \E cfg \in Configs, sh1 \in PairSheets, sh2 \in PairSheets :
        InitWith(cfg, (1 :> sh1) @@ (2 :> sh2))

\* Sheets without a valid row: no row, a blank identifier, no identifier
\* cell, the empty string and a control character.
InvalidSheets == { << >>, <<Row(<<" ">>)>>, <<NoAwbRow>>,
                   <<Row(<< >>), Row(<<"\t">>)>> }

\* Two uploads received by the same process, the second without a valid row.
InitReject ==
    \E cfg \in Configs, sh1 \in PairSheets, sh2 \in InvalidSheets :
        InitWith(cfg, (1 :> sh1) @@ (2 :> sh2))

(***************************************************************************)
(* app.post("/upload"), lines 82-190: the handler up to its first await.   *)
(***************************************************************************)
Folders(ts) == { ts[k].folder : k \in 1..Len(ts) }

\* lines 94-96 and 145-148: ./work is wiped and made again, with the
\* folders of the tasks.
FreshWorkDir(ts) == [work |-> TRUE, folders |-> Folders(ts), files |-> {}]

\* line 84 throws: the catch block answers 500.
UploadReadFails(r) ==
    /\ pc[r] = "received"
    /\ pc' = [pc EXCEPT ![r] = "sent500"]
    /\ error' = [error EXCEPT ![r] = "read"]
    /\ UNCHANGED <<config, fs, zipFile, rows, tasks, results, chunkStart,
                   batchStart, slots, launched, live, leaked, succeeded,
                   resultTask, chunks, written, sent,
                   progress>>

\* UploadNoRows with the test of line 89 after lines 94-96: ./work is wiped
\* and made before the 400.
UploadNoRowsLate(r) ==
    /\ pc[r] = "received"
    /\ Len(RowsWithAwb(rows[r])) = 0
    /\ fs' = FreshWorkDir(<< >>)
    /\ pc' = [pc EXCEPT ![r] = "sent400"]
    /\ UNCHANGED <<config, zipFile, rows, tasks, results, chunkStart, batchStart,
                   slots, launched, live, leaked, succeeded, resultTask, chunks,
                   written, error, sent, progress>>

\* lines 88-92
UploadNoRows(r) ==
    /\ pc[r] = "received"
    /\ Len(RowsWithAwb(rows[r])) = 0
    /\ pc' = [pc EXCEPT ![r] = "sent400"]
    /\ UNCHANGED <<config, fs, zipFile, rows, tasks, results, chunkStart,
                   batchStart, slots, launched, live, leaked, succeeded,
                   resultTask, chunks, written, error, sent,
                   progress>>

\* lines 88-190: the tasks are built, ./work is made, the loop is entered
\* and launchBrowser() is called.
UploadAccepted(r) ==
    /\ pc[r] = "received"
    /\ Len(RowsWithAwb(rows[r])) # 0
    /\ LET ts == BuildTasks(RowsWithAwb(rows[r]))
       IN  /\ tasks' = [tasks EXCEPT ![r] = ts]
           /\ fs' = FreshWorkDir(ts)
    /\ results' = [results EXCEPT ![r] = << >>]
    /\ chunkStart' = [chunkStart EXCEPT ![r] = 0]
    /\ pc' = [pc EXCEPT ![r] = "launching"]
    /\ UNCHANGED <<config, zipFile, rows, batchStart, slots, launched, live,
                   leaked, succeeded, resultTask, chunks, written, error, sent,
                   progress>>

\* lines 94-96 and 145-148 throw (fs.rmSync, fs.mkdirSync of ./work or of
\* a folder): the catch block answers 500.  ./work is as it was, is gone,
\* or is there without the folders.
UploadWorkDirFails(r) ==
    /\ pc[r] = "received"
    /\ Len(RowsWithAwb(rows[r])) # 0
    /\ fs' \in {fs, EmptyFs, FreshWorkDir(<< >>)}
    /\ pc' = [pc EXCEPT ![r] = "sent500"]
    /\ error' = [error EXCEPT ![r] = "mkdir"]
    /\ UNCHANGED <<config, zipFile, rows, tasks, results, chunkStart, batchStart,
                   slots, launched, live, leaked, succeeded, resultTask, chunks,
                   written, sent, progress>>

Upload(r) ==
    \/ UploadReadFails(r)
    \/ UploadNoRows(r)
    \/ UploadWorkDirFails(r)
    \/ UploadAccepted(r)

(***************************************************************************)
(* The chunk and batch loops, lines 186-208.                               *)
(***************************************************************************)
\* ChunkEnd one short.
ChunkEndOneShort(cs, n) == Min(cs + BROWSER_RESTART_EVERY - 1, n)

\* line 188
ChunkEnd(cs, n) == Min(cs + BROWSER_RESTART_EVERY, n)

\* BatchIndexes with the slice taken from tasks and not from chunkTasks: a
\* batch runs past the end of its chunk.
BatchIndexesOfTasks(cs, i, n) ==
    [k \in 1..(Min(cs + i + CONCURRENT_PDFS, n) - (cs + i)) |-> cs + i + k - 1]

\* line 193: the ordinals of chunkTasks.slice(i, i + CONCURRENT_PDFS).
BatchIndexes(cs, i, n) ==
    LET len == ChunkEnd(cs, n) - cs
    IN  [k \in 1..(Min(i + CONCURRENT_PDFS, len) - i) |-> cs + i + k - 1]

\* line 194, processWithRetry(t, browser) up to its first await: attempt 1
\* has called browserInstance.newPage().
NewSlot(index, browserInstance) ==
    [ index   |-> index,
      browser |-> browserInstance,
      attempt |-> 1,
      pc      |-> "newPage",
      page    |-> "none",
      success |-> FALSE ]

StartBatch(cs, i, n, browser) ==
    LET ix == BatchIndexes(cs, i, n)
    IN  [k \in 1..Len(ix) |-> NewSlot(ix[k], browser)]

\* line 190 resolves: the engine of the chunk is up and the first batch of
\* the chunk starts (lines 192-194).
LaunchBrowserOk(r) ==
    /\ pc[r] = "launching"
    /\ LET n       == Len(tasks[r])
           browser == launched[r] + 1
           sl      == StartBatch(chunkStart[r], 0, n, browser)
       IN  /\ launched' = [launched EXCEPT ![r] = browser]
           /\ live' = [live EXCEPT ![r] = @ \cup {browser}]
           /\ chunks' = [chunks EXCEPT ![r] =
                             Append(@, ChunkEnd(chunkStart[r], n) - chunkStart[r])]
           /\ batchStart' = [batchStart EXCEPT ![r] = 0]
           /\ slots' = [slots EXCEPT ![r] = sl]
    /\ leaked' = [leaked EXCEPT ![r] = 0]
    /\ pc' = [pc EXCEPT ![r] = "running"]
    /\ UNCHANGED <<config, fs, zipFile, rows, tasks, results, chunkStart,
                   succeeded, resultTask, written, error, sent, progress>>

\* line 190 rejects: the catch block answers 500.
LaunchBrowserFails(r) ==
    /\ pc[r] = "launching"
    /\ pc' = [pc EXCEPT ![r] = "sent500"]
    /\ error' = [error EXCEPT ![r] = "launch"]
    /\ UNCHANGED <<config, fs, zipFile, rows, tasks, results, chunkStart,
                   batchStart, slots, launched, live, leaked, succeeded,
                   resultTask, chunks, written, sent,
                   progress>>

LaunchBrowser(r) == LaunchBrowserOk(r) \/ LaunchBrowserFails(r)

(***************************************************************************)
(* processWithRetry and generateOnePdf, lines 152-184.  A slot is one      *)
(* processWithRetry call; its pc is the await its generateOnePdf call      *)
(* stands at: newPage (155), setContent (156-160), pdf (161-167), close    *)
(* (172), or final when processWithRetry has returned.                     *)
(***************************************************************************)
\* Returned with the loop test of line 178 off by one: a third attempt.
ReturnedOneMore(sl, success) ==
    IF success
    THEN [sl EXCEPT !.pc = "final", !.success = TRUE]
    ELSE IF sl.attempt <= MAX_PDF_RETRIES
         THEN [sl EXCEPT !.pc = "newPage", !.success = FALSE, !.attempt = @ + 1]
         ELSE [sl EXCEPT !.pc = "final", !.success = FALSE]

\* Returned without the attempt++ of line 178: a failed call is retried
\* for ever.
ReturnedNoCount(sl, success) ==
    IF success
    THEN [sl EXCEPT !.pc = "final", !.success = TRUE]
    ELSE IF sl.attempt < MAX_PDF_RETRIES
         THEN [sl EXCEPT !.pc = "newPage", !.success = FALSE]
         ELSE [sl EXCEPT !.pc = "final", !.success = FALSE]

\* lines 179-183: generateOnePdf has returned `success`.
Returned(sl, success) ==
    IF success
    THEN [sl EXCEPT !.pc = "final", !.success = TRUE]
    ELSE IF sl.attempt < MAX_PDF_RETRIES
         THEN [sl EXCEPT !.pc = "newPage", !.success = FALSE, !.attempt = @ + 1]
         ELSE [sl EXCEPT !.pc = "final", !.success = FALSE]

\* lines 168-173 once the try block has ended with `success`: the finally
\* block closes a page that is there and not closed, and awaits that.
Finally(sl, success) ==
    IF sl.page = "open"
    THEN [sl EXCEPT !.pc = "close", !.success = success]
    ELSE Returned(sl, success)

\* The generateOnePdf call of the slot has returned in the step to `new`.
Ended(new) == new.pc \in {"newPage", "final"}

\* A step of slot k of request r to `new`.  When the call has returned its
\* `page` is out of scope; a page still open then stays on the engine.
\* `returnedOk`: the call returns success in this step.
SlotStep(r, k, new, returnedOk) ==
    /\ slots' = [slots EXCEPT ![r][k] =
                    IF Ended(new) THEN [new EXCEPT !.page = "none"] ELSE new]
    /\ leaked' = [leaked EXCEPT ![r] =
                    IF Ended(new) /\ new.page = "open" THEN @ + 1 ELSE @]
    /\ succeeded' = [succeeded EXCEPT ![r] =
                        IF returnedOk THEN @ \cup {new.index} ELSE @]

InSlot(r, k, at) ==
    /\ pc[r] = "running"
    /\ k \in 1..Len(slots[r])
    /\ slots[r][k].pc = at

\* A failed call leaves the page open, or the page has crashed and is closed.
PageAfterFailure == {"open", "closed"}

\* line 155 resolves.
NewPageOk(r) ==
    \E k \in 1..Len(slots[r]) :
        /\ InSlot(r, k, "newPage")
        /\ SlotStep(r, k, [slots[r][k] EXCEPT !.pc = "setContent", !.page = "open"],
                    FALSE)
        /\ UNCHANGED <<config, fs, zipFile, pc, rows, tasks, results, chunkStart,
                       batchStart, launched, live, resultTask, chunks, written, error, sent,
                       progress>>

\* line 155 rejects: page is undefined, the catch block makes the result.
NewPageFails(r) ==
    \E k \in 1..Len(slots[r]) :
        /\ InSlot(r, k, "newPage")
        /\ SlotStep(r, k, Finally(slots[r][k], FALSE), FALSE)
        /\ UNCHANGED <<config, fs, zipFile, pc, rows, tasks, results, chunkStart,
                       batchStart, launched, live, resultTask, chunks, written, error, sent,
                       progress>>

\* lines 156-160 resolve.
SetContentOk(r) ==
    \E k \in 1..Len(slots[r]) :
        /\ InSlot(r, k, "setContent")
        /\ SlotStep(r, k, [slots[r][k] EXCEPT !.pc = "pdf"], FALSE)
        /\ UNCHANGED <<config, fs, zipFile, pc, rows, tasks, results, chunkStart,
                       batchStart, launched, live, resultTask, chunks, written, error, sent,
                       progress>>

\* lines 156-160 reject (an error or the timeout).
SetContentFails(r) ==
    \E k \in 1..Len(slots[r]), p \in PageAfterFailure :
        /\ InSlot(r, k, "setContent")
        /\ SlotStep(r, k, Finally([slots[r][k] EXCEPT !.page = p], FALSE), FALSE)
        /\ UNCHANGED <<config, fs, zipFile, pc, rows, tasks, results, chunkStart,
                       batchStart, launched, live, resultTask, chunks, written, error, sent,
                       progress>>

\* page.pdf({path}) writes the file of the task.
WriteFile(path, r) ==
    [fs EXCEPT !.files = {f \in @ : f.path # path} \cup {[path |-> path, by |-> r]}]

\* lines 161-168 resolve: the file is written (its folder must be there).
PdfOk(r) ==
    \E k \in 1..Len(slots[r]) :
        /\ InSlot(r, k, "pdf")
        /\ LET t == tasks[r][slots[r][k].index + 1]
           IN  /\ fs.work
               /\ t.folder \in fs.folders
               /\ fs' = WriteFile(t.filename, r)
               /\ written' = [written EXCEPT ![r] = @ \cup {t.filename}]
        /\ SlotStep(r, k, Finally(slots[r][k], TRUE), FALSE)
        /\ UNCHANGED <<config, zipFile, pc, rows, tasks, results, chunkStart,
                       batchStart, launched, live, resultTask, chunks, error, sent,
                       progress>>

\* line 162 rejects (an error or the timeout) and no file is written.
PdfFails(r) ==
    \E k \in 1..Len(slots[r]), p \in PageAfterFailure :
        /\ InSlot(r, k, "pdf")
        /\ SlotStep(r, k, Finally([slots[r][k] EXCEPT !.page = p], FALSE), FALSE)
        /\ UNCHANGED <<config, fs, zipFile, pc, rows, tasks, results, chunkStart,
                       batchStart, launched, live, resultTask, chunks, written, error, sent,
                       progress>>

\* line 172: page.close() resolves, generateOnePdf returns.
ClosePageOk(r) ==
    \E k \in 1..Len(slots[r]) :
        /\ InSlot(r, k, "close")
        /\ SlotStep(r, k, Returned([slots[r][k] EXCEPT !.page = "closed"],
                                   slots[r][k].success),
                    slots[r][k].success)
        /\ UNCHANGED <<config, fs, zipFile, pc, rows, tasks, results, chunkStart,
                       batchStart, launched, live, resultTask, chunks, written, error, sent,
                       progress>>

\* line 172: page.close() rejects and .catch(() => {}) drops the error;
\* the page is still open on the engine, or is gone.
ClosePageFails(r) ==
    \E k \in 1..Len(slots[r]), p \in PageAfterFailure :
        /\ InSlot(r, k, "close")
        /\ SlotStep(r, k, Returned([slots[r][k] EXCEPT !.page = p],
                                   slots[r][k].success),
                    slots[r][k].success)
        /\ UNCHANGED <<config, fs, zipFile, pc, rows, tasks, results, chunkStart,
                       batchStart, launched, live, resultTask, chunks, written, error, sent,
                       progress>>

(***************************************************************************)
(* The end of a batch, of a chunk and of the loop, lines 194-229.          *)
(***************************************************************************)
\* lines 168-170: a Conversion Result.
ResultOf(r, sl) == [success |-> sl.success, rawAwb |-> tasks[r][sl.index + 1].rawAwb]

\* line 192: the loop test, with i already advanced.
MoreBatches(i, len) == i < len

AllFinal(sl) == \A k \in 1..Len(sl) : sl[k].pc = "final"

\* BatchResults keeping the successful results only.
BatchResultsOfSuccesses(r) ==
    SelectSeq([k \in 1..Len(slots[r]) |-> ResultOf(r, slots[r][k])],
              LAMBDA res : res.success)

\* BatchResults in the order in which the calls return (here the last
\* first) and not in the order of the batch.
BatchResultsAsCompleted(r) ==
    [k \in 1..Len(slots[r]) |-> ResultOf(r, slots[r][Len(slots[r]) + 1 - k])]

\* line 194 resolves: Promise.all has every result of the batch, in the
\* order of the batch.
BatchResults(r) == [k \in 1..Len(slots[r]) |-> ResultOf(r, slots[r][k])]

\* line 199
Reported(completed, n) == completed % PROGRESS_EVERY = 0 \/ completed = n

\* lines 194-202, then the next batch of the chunk (192-194) or
\* browser.close() (204).
BatchDone(r) ==
    /\ pc[r] = "running"
    /\ AllFinal(slots[r])
    /\ results' = [results EXCEPT ![r] = @ \o BatchResults(r)]
    /\ resultTask' = [resultTask EXCEPT ![r] =
                         @ \o [k \in 1..Len(slots[r]) |-> slots[r][k].index]]
    /\ LET n   == Len(tasks[r])
           len == ChunkEnd(chunkStart[r], n) - chunkStart[r]
           i   == batchStart[r] + CONCURRENT_PDFS
       IN  /\ batchStart' = [batchStart EXCEPT ![r] = i]
           /\ IF MoreBatches(i, len)
              THEN /\ slots' = [slots EXCEPT ![r] =
                                   StartBatch(chunkStart[r], i, n, launched[r])]
                   /\ pc' = pc
              ELSE /\ slots' = [slots EXCEPT ![r] = << >>]
                   /\ pc' = [pc EXCEPT ![r] = "closing"]
    /\ progress' = [progress EXCEPT ![r] =
                        LET completed == Len(results'[r])
                            failed    == Cardinality({k \in 1..completed :
                                                         ~results'[r][k].success})
                        IN  IF Reported(completed, Len(tasks[r]))
                            THEN Append(@, [completed |-> completed, failed |-> failed])
                            ELSE @]
    /\ UNCHANGED <<config, fs, zipFile, rows, tasks, chunkStart, launched, live,
                   leaked, succeeded, chunks, written, error, sent>>

\* line 220: fs.createWriteStream(finalZipPath) empties the file; a stream
\* of another request that is still writing it goes on writing.
OpenZip(r) ==
    [ exists  |-> TRUE,
      entries |-> {},
      writers |-> {r} \cup {q \in zipFile.writers : pc[q] = "zipping"},
      errored |-> zipFile.errored ]

\* CloseEngine left out: the engine of the chunk keeps running.
CloseEngineSkipped(engines, browser) == engines

\* browser.close(): the engine is no longer running.
CloseEngine(engines, browser) == engines \ {browser}

\* line 204 resolves: the engine and the contexts left on it are gone; the
\* next chunk calls launchBrowser() (187-190), or the loop is over and the
\* archive is started (210-228).
CloseBrowserOk(r) ==
    /\ pc[r] = "closing"
    /\ live' = [live EXCEPT ![r] = CloseEngine(@, launched[r])]
    /\ leaked' = [leaked EXCEPT ![r] = 0]
    /\ LET cs == chunkStart[r] + BROWSER_RESTART_EVERY
       IN  /\ chunkStart' = [chunkStart EXCEPT ![r] = cs]
           /\ IF cs < Len(tasks[r])
              THEN /\ pc' = [pc EXCEPT ![r] = "launching"]
                   /\ zipFile' = zipFile
              ELSE /\ pc' = [pc EXCEPT ![r] = "zipping"]
                   /\ zipFile' = OpenZip(r)
    /\ UNCHANGED <<config, fs, rows, tasks, results, batchStart, slots, launched,
                   succeeded, resultTask, chunks, written, error, sent, progress>>

\* line 204 rejects: the catch block answers 500; the engine is gone, or
\* is still running.
CloseBrowserFails(r) ==
    /\ pc[r] = "closing"
    /\ \E gone \in BOOLEAN :
          /\ live' = [live EXCEPT ![r] = IF gone THEN CloseEngine(@, launched[r]) ELSE @]
          /\ leaked' = [leaked EXCEPT ![r] = IF gone THEN 0 ELSE @]
    /\ pc' = [pc EXCEPT ![r] = "sent500"]
    /\ error' = [error EXCEPT ![r] = "close"]
    /\ UNCHANGED <<config, fs, zipFile, rows, tasks, results, chunkStart,
                   batchStart, slots, launched, succeeded,
                   resultTask, chunks, written, sent, progress>>

CloseBrowser(r) == CloseBrowserOk(r) \/ CloseBrowserFails(r)

\* lines 223-231: the archive holds the files of ./work, the output stream
\* closes and the file is handed to res.download.
ZipOk(r) ==
    /\ pc[r] = "zipping"
    /\ LET entries == zipFile.entries \cup fs.files
       IN  /\ zipFile' = [zipFile EXCEPT !.entries = entries]
           /\ sent' = [sent EXCEPT ![r] = entries]
    /\ pc' = [pc EXCEPT ![r] = "sent200"]
    /\ UNCHANGED <<config, fs, rows, tasks, results, chunkStart, batchStart,
                   slots, launched, live, leaked, succeeded, resultTask, chunks, written, error,
                   progress>>

\* line 224: the archive reports an error; the catch block answers 500.
ZipFails(r) ==
    /\ pc[r] = "zipping"
    /\ pc' = [pc EXCEPT ![r] = "sent500"]
    /\ error' = [error EXCEPT ![r] = "archive"]
    /\ UNCHANGED <<config, fs, zipFile, rows, tasks, results, chunkStart,
                   batchStart, slots, launched, live, leaked, succeeded,
                   resultTask, chunks, written, sent,
                   progress>>

\* The handlers that are under way when the process ends.
Crash(p) == [q \in Requests |-> IF p[q] \in {"none", "sent200", "sent400", "sent500"}
                                THEN p[q] ELSE "crashed"]

\* line 220: the output stream cannot be opened, or errors while it is
\* written.  `output` has no "error" listener (223-224 listen to its
\* "close" and to the archive's "error"), so the event is thrown as an
\* uncaught exception and the process ends: the promise is neither
\* resolved nor rejected by the error and no response is sent.
ZipOutputErrors(r) ==
    /\ pc[r] = "zipping"
    /\ zipFile' = [zipFile EXCEPT !.errored = @ \cup {r}]
    /\ pc' = Crash(pc)
    /\ UNCHANGED <<config, fs, rows, tasks, results, chunkStart, batchStart, slots,
                   launched, live, leaked, succeeded, resultTask, chunks, written,
                   error, sent, progress>>

Zip(r) == ZipOk(r) \/ ZipFails(r) \/ ZipOutputErrors(r)

(***************************************************************************)
(* Specifications.                                                         *)
(***************************************************************************)
Next ==
    \E r \in Requests :
        \/ Upload(r)
        \/ LaunchBrowser(r)
        \/ NewPageOk(r)
        \/ NewPageFails(r)
        \/ SetContentOk(r)
        \/ SetContentFails(r)
        \/ PdfOk(r)
        \/ PdfFails(r)
        \/ ClosePageOk(r)
        \/ ClosePageFails(r)
        \/ BatchDone(r)
        \/ CloseBrowser(r)
        \/ Zip(r)

Spec == Init /\ [][Next]_vars

\* Every await of the handler settles: Puppeteer bounds its calls by
\* timeouts, and the archive step is taken here to settle.
FairSpec == Spec /\ WF_vars(Next)

\* Two uploads whose handlers interleave.
SpecPair == InitPair /\ [][Next]_vars

\* An upload and an upload without a valid row, interleaved.
SpecReject == InitReject /\ [][Next]_vars

\* The task construction alone, over the wider choice of identifiers.
NextBuild == \E r \in Requests : Upload(r)

SpecBuild == InitBuild /\ [][NextBuild]_vars

\* The task construction over sheets long enough for three partitions.
SpecParts == InitParts /\ [][NextBuild]_vars

(***************************************************************************)
(* Properties.                                                             *)
(***************************************************************************)
Answered == {"sent200", "sent400", "sent500"}

\* The chunk loop has run to its end (line 208): the tally of lines 212-214
\* is made and the archive step follows.
LoopDone(r) ==
    \/ pc[r] \in {"zipping", "sent200"}
    \/ pc[r] = "sent500" /\ error[r] = "archive"

\* lines 212-213
successCount(r) == Cardinality({k \in 1..Len(results[r]) : results[r][k].success})
failCount(r) == Cardinality({k \in 1..Len(results[r]) : ~results[r][k].success})

\* C1: the task list never holds two tasks with the same target file path,
\* whatever the raw identifiers of the rows are.
C1_UniqueTargetPaths ==
    \A r \in Requests : \A i, j \in 1..Len(tasks[r]) :
        i # j => tasks[r][i].filename # tasks[r][j].filename

\* C2: no step of one request deletes or overwrites the files another
\* request has written and has still to archive, and the archive a request
\* sends holds only files that request wrote.
C2_RequestsIsolated ==
    \A r \in Requests :
        /\ pc[r] \in {"running", "closing", "zipping"} =>
              \A p \in written[r] : [path |-> p, by |-> r] \in fs.files
        /\ \A f \in sent[r] : f.by = r

\* C3: the results list never holds more than one result per task nor more
\* results than tasks, and when the loop has run to its end it holds
\* exactly one per task: successes + failures = N.
C3_OneResultPerTask ==
    \A r \in Requests :
        LET n == Len(tasks[r])
        IN  /\ Len(results[r]) <= n
            /\ Len(resultTask[r]) = Len(results[r])
            /\ \A i \in 1..Len(resultTask[r]) : resultTask[r][i] \in 0..(n - 1)
            /\ \A i, j \in 1..Len(resultTask[r]) :
                  i # j => resultTask[r][i] # resultTask[r][j]
            /\ LoopDone(r) =>
                  /\ Len(results[r]) = n
                  /\ successCount(r) + failCount(r) = n
                  /\ {resultTask[r][i] : i \in 1..n} = 0..(n - 1)

\* The loop has ended over three tasks, some converted and some not.
C3_Witness ==
    \E r \in Requests :
        /\ LoopDone(r)
        /\ Len(tasks[r]) = 3
        /\ successCount(r) >= 1
        /\ failCount(r) >= 1

\* C4: a task is attempted at least once and at most twice; a task whose
\* attempts all failed is recorded as failed, once, after exactly two
\* attempts, and a task is recorded as successful iff one of its attempts
\* succeeded.
C4_RetryCeiling ==
    \A r \in Requests :
        /\ \A k \in 1..Len(slots[r]) :
              LET sl == slots[r][k]
              IN  /\ sl.attempt \in 1..2
                  /\ sl.pc = "final" => (sl.success <=> sl.index \in succeeded[r])
                  /\ sl.pc = "final" /\ ~sl.success => sl.attempt = 2
                  /\ \A i \in 1..Len(resultTask[r]) : resultTask[r][i] # sl.index
        /\ \A i \in 1..Len(results[r]) :
              /\ results[r][i].success <=> resultTask[r][i] \in succeeded[r]
              /\ ~results[r][i].success =>
                    \A j \in 1..Len(results[r]) :
                        resultTask[r][j] = resultTask[r][i] => j = i

\* One task is recorded as failed while another has succeeded on its
\* second attempt.
C4_Witness ==
    \E r \in Requests :
        /\ \E i \in 1..Len(results[r]) : ~results[r][i].success
        /\ \E k \in 1..Len(slots[r]) :
              /\ slots[r][k].pc = "final"
              /\ slots[r][k].success
              /\ slots[r][k].attempt = 2

\* The contexts open on the engine of a request: those of the calls in
\* flight and those left behind by calls that have returned.
HeldContexts(r) == Cardinality({k \in 1..Len(slots[r]) : slots[r][k].page = "open"})
OpenContexts(r) == HeldContexts(r) + leaked[r]

\* C5: no context is open once the attempt that opened it has returned, on
\* any exit path and also when page.close() fails, so none is open when a
\* batch has ended or the engine is closed.
C5_ClosedOnEveryPath == \A r \in Requests : leaked[r] = 0

\* C6: at most one engine of a request is running; the next engine is
\* launched only when the one before has been closed, and a task is worked
\* on only while the engine of its own chunk is the one that runs.
C6_ChunksInOrder ==
    \A r \in Requests :
        /\ Cardinality(live[r]) <= 1
        /\ live[r] \subseteq {launched[r]}
        /\ pc[r] = "launching" => live[r] = {}
        /\ \A k \in 1..Len(slots[r]) :
              /\ slots[r][k].browser = (slots[r][k].index \div BROWSER_RESTART_EVERY) + 1
              /\ live[r] = {slots[r][k].browser}

\* The second chunk is being worked on, on the second engine.
C6_Witness ==
    \E r \in Requests :
        /\ pc[r] = "running"
        /\ launched[r] = 2
        /\ live[r] = {2}
        /\ \E k \in 1..Len(slots[r]) : slots[r][k].pc = "pdf"

\* C7: the tasks in flight are those of one batch, which follow the tasks
\* that have their results, and the tasks in progress and the rendering
\* contexts that are open number at most CONCURRENT_PDFS.
C7_ContextsBounded ==
    \A r \in Requests :
        /\ \A k \in 1..Len(slots[r]) : slots[r][k].index = Len(results[r]) + k - 1
        /\ Len(slots[r]) <= CONCURRENT_PDFS
        /\ OpenContexts(r) <= CONCURRENT_PDFS

\* C8: every engine that was launched is closed in the end: when the
\* request has been answered no engine of it is running, whatever the
\* results of its tasks are.
C8_EveryEngineClosed == \A r \in Requests : pc[r] \in Answered => live[r] = {}

\* C9: every chunk but the last has BROWSER_RESTART_EVERY tasks, and a run
\* over N tasks that ends has launched ceil(N / BROWSER_RESTART_EVERY)
\* engines.
C9_EngineCount ==
    \A r \in Requests :
        LET n == Len(tasks[r])
            m == Len(chunks[r])
        IN  /\ m = launched[r]
            /\ \A c \in 1..m : chunks[r][c] \in 1..BROWSER_RESTART_EVERY
            /\ \A c \in 1..(m - 1) : chunks[r][c] = BROWSER_RESTART_EVERY
            /\ LoopDone(r) =>
                  /\ launched[r] = (n + BROWSER_RESTART_EVERY - 1) \div BROWSER_RESTART_EVERY
                  /\ (m - 1) * BROWSER_RESTART_EVERY + chunks[r][m] = n

\* Three tasks with a restart every two: two engines, chunks of 2 and 1.
C9_Witness ==
    \E r \in Requests :
        /\ LoopDone(r)
        /\ launched[r] = 2
        /\ chunks[r] = <<2, 1>>

\* C10: while launching and closing the engines succeed, the handler gets
\* from the start of the loop to its end with a result for every task,
\* whatever attempts fail; a 500 comes from the infrastructure steps only.
C10_RunsToTally ==
    /\ \A r \in Requests :
          (pc[r] = "launching") ~>
              \/ LoopDone(r) /\ Len(results[r]) = Len(tasks[r])
              \/ error[r] \in {"launch", "close"}
    /\ [](\A r \in Requests :
            pc[r] = "sent500" =>
                error[r] \in {"read", "mkdir", "launch", "close", "archive"})

\* The loop has ended over three tasks in two chunks, batches of two, with
\* every attempt failed.
C10_Witness ==
    \E r \in Requests :
        /\ LoopDone(r)
        /\ Len(results[r]) = 3
        /\ launched[r] = 2
        /\ CONCURRENT_PDFS = 2
        /\ successCount(r) = 0

\* The tasks of request r whose file is in folder part<p>.
Partition(r, p) == {k \in 1..Len(tasks[r]) : tasks[r][k].folder = p}

\* C11: when the loop has run to its end the number of files under ./work
\* is the number of successful results, every file is the output of exactly
\* one successful task, and no file is there for a task recorded as failed.
C11_FilesMatchSuccesses ==
    \A r \in Requests :
        LoopDone(r) =>
            /\ Cardinality(fs.files) = successCount(r)
            /\ \A f \in fs.files :
                  Cardinality({i \in succeeded[r] :
                                  tasks[r][i + 1].filename = f.path}) = 1
            /\ \A k \in 1..Len(results[r]) :
                  ~results[r][k].success =>
                      \A f \in fs.files :
                          f.path # tasks[r][resultTask[r][k] + 1].filename

\* C12: the task of ordinal i has partition floor(i / MAX_PER_ZIP), its
\* folder and file are in part<floor(i / MAX_PER_ZIP) + 1>, the partitions
\* are filled in ordinal order, none has more than MAX_PER_ZIP tasks, and
\* 2 * MAX_PER_ZIP + 1 valid rows give partitions of MAX_PER_ZIP,
\* MAX_PER_ZIP and 1 tasks.
C12_Partitions ==
    \A r \in Requests :
        LET n == Len(tasks[r])
        IN  /\ \A k \in 1..n :
                  /\ tasks[r][k].index = k - 1
                  /\ tasks[r][k].folder = ((k - 1) \div MAX_PER_ZIP) + 1
                  /\ tasks[r][k].filename[1] = tasks[r][k].folder
            /\ \A i, j \in 1..n : i < j => tasks[r][i].folder <= tasks[r][j].folder
            /\ \A p \in Folders(tasks[r]) :
                  /\ Cardinality(Partition(r, p)) <= MAX_PER_ZIP
                  /\ (p + 1) \in Folders(tasks[r]) =>
                        Cardinality(Partition(r, p)) = MAX_PER_ZIP
            /\ n > 0 => fs.folders = Folders(tasks[r])
            /\ n = 2 * MAX_PER_ZIP + 1 =>
                  /\ Folders(tasks[r]) = {1, 2, 3}
                  /\ Cardinality(Partition(r, 1)) = MAX_PER_ZIP
                  /\ Cardinality(Partition(r, 2)) = MAX_PER_ZIP
                  /\ Cardinality(Partition(r, 3)) = 1

\* 2 * MAX_PER_ZIP + 1 tasks have been built, in three folders.
C12_Witness ==
    \E r \in Requests :
        /\ pc[r] = "launching"
        /\ Len(tasks[r]) = 2 * MAX_PER_ZIP + 1
        /\ fs.folders = {1, 2, 3}

\* The number of tasks up to the k-th that have the raw identifier of the
\* k-th.
Occurrence(r, k) ==
    Cardinality({j \in 1..k : tasks[r][j].rawAwb = tasks[r][k].rawAwb})

\* C13: the tasks are the retained rows in their order; among the tasks
\* with one raw identifier the first has the bare sanitized name and the
\* k-th (k >= 2) the sanitized name followed by _k, counted over the whole
\* upload; the file of each lies in the folder of its own ordinal.
C13_DuplicateSuffixes ==
    \A r \in Requests :
        pc[r] \notin {"none", "received", "sent400"}
            /\ error[r] \notin {"read", "mkdir"} =>
            /\ Len(tasks[r]) = Len(RowsWithAwb(rows[r]))
            /\ \A k \in 1..Len(tasks[r]) :
                  LET t    == tasks[r][k]
                      name == sanitizeForFilename(t.rawAwb)
                      occ  == Occurrence(r, k)
                  IN  /\ t.rawAwb = RowsWithAwb(rows[r])[k].awb
                      /\ occ = 1 => t.filename[2] = name
                      /\ occ >= 2 => t.filename[2] = name \o <<"_">> \o NumToStr(occ)
                      /\ t.filename[1] = ((k - 1) \div MAX_PER_ZIP) + 1

\* Three rows with one raw identifier: the third is the first task of the
\* second partition and has the suffix _3.
C13_Witness ==
    \E r \in Requests :
        /\ Len(tasks[r]) = 3
        /\ \A k \in 1..3 : tasks[r][k].rawAwb = <<"A", "/">>
        /\ tasks[r][1].filename = <<1, <<"A", "_">>>>
        /\ tasks[r][3].filename = <<(2 \div MAX_PER_ZIP) + 1, <<"A", "_", "_", "3">>>>

\* The upload of request r has no row with an identifier.
NoValidRows(r) == Len(RowsWithAwb(rows[r])) = 0

\* C14: the only answer to an upload without a valid row is 400 (500 when
\* the workbook cannot be read), and the step that answers it touches
\* neither ./work nor the archive; no task is built, no engine is launched,
\* no conversion is attempted and nothing is archived for it.  (A handler
\* that has not run when the process ends gives no answer.)
C14_RejectedWithoutEffects ==
    /\ [](\A r \in Requests :
            pc[r] # "none" /\ NoValidRows(r) =>
                /\ pc[r] \in {"received", "sent400", "sent500", "crashed"}
                /\ pc[r] = "sent500" => error[r] = "read"
                /\ tasks[r] = << >> /\ results[r] = << >> /\ slots[r] = << >>
                /\ launched[r] = 0 /\ live[r] = {}
                /\ written[r] = {} /\ sent[r] = {}
                /\ r \notin zipFile.writers)
    /\ [][\A r \in Requests :
            NoValidRows(r) /\ pc[r] = "received" /\ pc'[r] \in Answered =>
                fs' = fs /\ zipFile' = zipFile]_vars

\* An upload without rows has been answered 400 while the files of another
\* request are under ./work.
C14_Witness ==
    \E r \in Requests :
        /\ pc[r] = "sent400"
        /\ Len(rows[r]) = 2
        /\ fs.files # {}

\* C15: the answer is 400 iff the upload has no valid row, 500 iff an
\* infrastructure step has thrown (reading the workbook, making ./work,
\* launching or closing an engine, the archive), and 200 otherwise, whatever
\* the results of the tasks; the archive sent with a 200 holds exactly the
\* files of the successful tasks, one for each.
C15_ThreeResponses ==
    \A r \in Requests :
        pc[r] \in Answered =>
            /\ pc[r] = "sent400" <=> (NoValidRows(r) /\ error[r] = "")
            /\ pc[r] = "sent500" <=>
                  error[r] \in {"read", "mkdir", "launch", "close", "archive"}
            /\ pc[r] = "sent200" <=> (~NoValidRows(r) /\ error[r] = "")
            /\ pc[r] = "sent200" =>
                  /\ Len(results[r]) = Len(tasks[r])
                  /\ \A i \in succeeded[r] :
                        \E f \in sent[r] : f.path = tasks[r][i + 1].filename
                  /\ \A f \in sent[r] :
                        Cardinality({i \in succeeded[r] :
                                        tasks[r][i + 1].filename = f.path}) = 1

\* C16: when the output stream cannot be opened or errors, or the archive
\* reports an error, the archive step fails and the request is answered
\* 500; a 200 is sent for an archive file that is there; the step settles in
\* every case, so that no request is left without a response.
C16_ArchiveSettles ==
    \A r \in Requests :
        /\ (r \in zipFile.errored \/ error[r] = "archive") => pc[r] = "sent500"
        /\ pc[r] = "sent200" => zipFile.exists
        /\ pc[r] # "crashed"

\* C17: when the loop has run to its end, a progress line has been written
\* for every multiple of PROGRESS_EVERY up to the number of tasks and for
\* the number of tasks itself, once each, with the number of failures
\* among the tasks completed by then, whatever CONCURRENT_PDFS and
\* BROWSER_RESTART_EVERY are.
C17_ProgressEveryHundred ==
    \A r \in Requests :
        LoopDone(r) =>
            \A m \in 1..Len(tasks[r]) :
                (m % PROGRESS_EVERY = 0 \/ m = Len(tasks[r])) =>
                    /\ Cardinality({i \in 1..Len(progress[r]) :
                                       progress[r][i].completed = m}) = 1
                    /\ \A i \in 1..Len(progress[r]) :
                          progress[r][i].completed = m =>
                              progress[r][i].failed =
                                  Cardinality({k \in 1..m : ~results[r][k].success})

\* C18: when the response of a request has been sent, ./work and the files
\* made for the request are gone and no engine of the request is running.
C18_NothingLeftBehind ==
    \A r \in Requests :
        pc[r] \in Answered =>
            /\ ~fs.work
            /\ fs.files = {}
            /\ live[r] = {}

\* C19: every attempt of a task, the retry too, runs on the engine of the
\* task's chunk, floor(ordinal / BROWSER_RESTART_EVERY), which is the last
\* one launched and is running; a task is worked on in its own chunk only
\* and never again once it has its result.
C19_AttemptsOnChunkEngine ==
    /\ [](\A r \in Requests : \A k \in 1..Len(slots[r]) :
            LET sl == slots[r][k]
            IN  /\ sl.browser = (sl.index \div BROWSER_RESTART_EVERY) + 1
                /\ sl.browser = launched[r]
                /\ sl.browser \in live[r]
                /\ sl.index >= chunkStart[r]
                /\ sl.index < chunkStart[r] + BROWSER_RESTART_EVERY
                /\ sl.index < Len(tasks[r])
                /\ \A i \in 1..Len(resultTask[r]) : resultTask[r][i] # sl.index)
    /\ [][\A r \in Requests : \A k \in 1..Len(slots[r]) :
            (k <= Len(slots'[r]) /\ slots'[r][k].index = slots[r][k].index) =>
                slots'[r][k].browser = slots[r][k].browser]_vars

\* The retry of a task of the second chunk runs on the second engine.
C19_Witness ==
    \E r \in Requests : \E k \in 1..Len(slots[r]) :
        /\ slots[r][k].attempt = 2
        /\ slots[r][k].pc = "setContent"
        /\ slots[r][k].browser = 2
        /\ slots[r][k].index >= BROWSER_RESTART_EVERY

\* C20: the results are at every point the results of the first tasks, in
\* the order of the tasks: the k-th result has the raw identifier of the
\* k-th task; results are added at the end, one whole batch at a time.
C20_ResultsInTaskOrder ==
    /\ [](\A r \in Requests :
            /\ Len(results[r]) <= Len(tasks[r])
            /\ \A k \in 1..Len(results[r]) :
                  /\ results[r][k].rawAwb = tasks[r][k].rawAwb
                  /\ resultTask[r][k] = k - 1)
    /\ [][\A r \in Requests :
            results'[r] # results[r] =>
                /\ Len(results'[r]) = Len(results[r]) + Len(slots[r])
                /\ SubSeq(results'[r], 1, Len(results[r])) = results[r]
                /\ Len(slots[r]) =
                      Min(CONCURRENT_PDFS,
                          ChunkEnd(chunkStart[r], Len(tasks[r])) - Len(results[r]))]_vars

\* Two batches have been recorded, three results in all, for tasks whose
\* raw identifiers differ.
C20_Witness ==
    \E r \in Requests :
        /\ CONCURRENT_PDFS = 2
        /\ BROWSER_RESTART_EVERY = 3
        /\ Len(results[r]) = 3
        /\ results[r][1].rawAwb # results[r][2].rawAwb
        /\ results[r][1].success /\ ~results[r][2].success

=============================================================================
